---------------------------- MODULE Spec2Model ----------------------------
(***************************************************************************)
(* Model of src/app.py: the Flask views that read the DBF ledger tables    *)
(* of a condominium and classify / aggregate their rows (index, dashboard, *)
(* balanco), together with the reader ler_dbf.                             *)
(*                                                                         *)
(* Text is a sequence of one-character strings, so that str.strip,         *)
(* str.upper and the substring test `in` are computed and not assumed.     *)
(* Amounts are Python floats: modelled as integers (whole currency units)  *)
(* rounded to a significand of MantBits bits, round-half-to-even, after    *)
(* every conversion and arithmetic operation (IEEE-754 binary64 has 53).   *)
(***************************************************************************)
EXTENDS Integers, Sequences, FiniteSets, TLC

VARIABLES corrente, response, frame

vars == <<corrente, response, frame>>

(***************************************************************************)
(* Bounds of the model.                                                    *)
(***************************************************************************)
MaxRows == 2
MaxCoreRows == 3
MaxTableRows == 2
MantBits == 8

(***************************************************************************)
(* Python values held by a row's fields: a number, None, or a string.      *)
(***************************************************************************)
Num(n) == [t |-> "num", n |-> n]
None == [t |-> "none"]
Str(s) == [t |-> "str", s |-> s]

\* dict.get(key, default)
Get(linha, key, default) == IF key \in DOMAIN linha THEN linha[key] ELSE default

(***************************************************************************)
(* str.upper / str.strip / `in`                                            *)
(***************************************************************************)
\* the characters str.upper changes
UpperOf ==
    "a" :> "A" @@ "b" :> "B" @@ "c" :> "C" @@ "d" :> "D" @@
    "e" :> "E" @@ "f" :> "F" @@ "g" :> "G" @@ "h" :> "H" @@
    "i" :> "I" @@ "j" :> "J" @@ "k" :> "K" @@ "l" :> "L" @@
    "m" :> "M" @@ "n" :> "N" @@ "o" :> "O" @@ "p" :> "P" @@
    "q" :> "Q" @@ "r" :> "R" @@ "s" :> "S" @@ "t" :> "T" @@
    "u" :> "U" @@ "v" :> "V" @@ "w" :> "W" @@ "x" :> "X" @@
    "y" :> "Y" @@ "z" :> "Z" @@ "o_acute" :> "O_ACUTE" @@ "a_acute" :> "A_ACUTE"

UpperChar(c) == IF c \in DOMAIN UpperOf THEN UpperOf[c] ELSE c

upper(s) == [i \in 1..Len(s) |-> UpperChar(s[i])]

IsSpace(c) == c = " "

RECURSIVE lstrip(_)
lstrip(s) == IF s # <<>> /\ IsSpace(Head(s)) THEN lstrip(Tail(s)) ELSE s

RECURSIVE rstrip(_)
rstrip(s) ==
    IF s # <<>> /\ IsSpace(s[Len(s)]) THEN rstrip(SubSeq(s, 1, Len(s) - 1)) ELSE s

strip(s) == rstrip(lstrip(s))

\* pat in s
In(pat, s) ==
    \/ pat = <<>>
    \/ \E i \in 0..(Len(s) - Len(pat)) :
          s[i + 1] = pat[1] /\ SubSeq(s, i + 1, i + Len(pat)) = pat

(***************************************************************************)
(* float: rounding to MantBits significant bits, ties to even.             *)
(***************************************************************************)
RECURSIVE Pow2(_)
Pow2(k) == IF k = 0 THEN 1 ELSE 2 * Pow2(k - 1)

\* one more than the largest significand
Significands == Pow2(MantBits)

RECURSIVE Quantum(_, _)
Quantum(m, q) == IF m \div q < Significands THEN q ELSE Quantum(m, 2 * q)

RoundMag(m) ==
    IF m < Significands THEN m ELSE
    LET q == Quantum(m, 1)
        k == m \div q
        r == m - k * q
    IN  IF 2 * r < q THEN k * q
        ELSE IF 2 * r > q THEN (k + 1) * q
        ELSE IF k % 2 = 0 THEN k * q ELSE (k + 1) * q

FloatRound(x) == IF x < 0 THEN 0 - RoundMag(0 - x) ELSE RoundMag(x)

FAdd(a, b) == FloatRound(a + b)
FSub(a, b) == FloatRound(a - b)

(***************************************************************************)
(* float(x or 0): the coercion applied to valor and to the month fields.   *)
(* A result [ok |-> FALSE] is the ValueError float() raises on text that   *)
(* is not a number.                                                        *)
(***************************************************************************)
Falsy(x) ==
    \/ x.t = "none"
    \/ x.t = "num" /\ x.n = 0
    \/ x.t = "str" /\ x.s = <<>>

OrZero(x) == IF Falsy(x) THEN Num(0) ELSE x

DigitValue(c) ==
    CASE c = "0" -> 0 [] c = "1" -> 1 [] c = "2" -> 2 [] c = "3" -> 3
      [] c = "4" -> 4 [] c = "5" -> 5 [] c = "6" -> 6 [] c = "7" -> 7
      [] c = "8" -> 8 [] c = "9" -> 9 [] OTHER -> -1

RECURSIVE ParseDigits(_, _)
ParseDigits(s, acc) ==
    IF s = <<>> THEN acc
    ELSE ParseDigits(Tail(s), 10 * acc + DigitValue(Head(s)))

IsNumeral(s) == s # <<>> /\ \A i \in 1..Len(s) : DigitValue(s[i]) >= 0

float(x) ==
    CASE x.t = "num" -> [ok |-> TRUE, val |-> FloatRound(x.n)]
      [] x.t = "str" ->
            IF IsNumeral(strip(x.s))
            THEN [ok |-> TRUE, val |-> FloatRound(ParseDigits(strip(x.s), 0))]
            ELSE [ok |-> FALSE, val |-> 0]
      [] OTHER -> [ok |-> FALSE, val |-> 0]

Coerce(linha, key) == float(OrZero(Get(linha, key, Num(0))))

\* mutant: one decimal place
Fmt2_uma_casa(x) ==
    IF x < 0 THEN "-" \o ToString(0 - x) \o ".0" ELSE ToString(x) \o ".0"

\* f"{x:.2f}" of a float holding a whole number
Fmt2(x) ==
    IF x < 0 THEN "-" \o ToString(0 - x) \o ".00" ELSE ToString(x) \o ".00"


(***************************************************************************)
(* The string literals the views match against.                            *)
(***************************************************************************)
S_TSA == <<"T", "S", "A">>
S_SALDO == <<"S", "A", "L", "D", "O">>
S_ANTERIOR == <<"A", "N", "T", "E", "R", "I", "O", "R">>
S_TOTAL == <<"T", "O", "T", "A", "L">>
S_RECEITAS == <<"R", "E", "C", "E", "I", "T", "A", "S">>
S_DESPESAS == <<"D", "E", "S", "P", "E", "S", "A", "S">>
S_FINAL == <<"F", "I", "N", "A", "L">>
S_SUBTOTAL == <<"S", "U", "B", "T", "O", "T", "A", "L">>
S_DESPESA == <<"D", "E", "S", "P", "E", "S", "A">>
S_RECEITA == <<"R", "E", "C", "E", "I", "T", "A">>
S_DEPOSITO_ORDEM_ACENTO == <<"D", "E", "P", "O_ACUTE", "S", "I", "T", "O", " ", "O", "R", "D", "E", "M">>
S_DEPOSITO_ORDEM == <<"D", "E", "P", "O", "S", "I", "T", "O", " ", "O", "R", "D", "E", "M">>
S_NUMERARIO_CAIXA_ACENTO == <<"N", "U", "M", "E", "R", "A_ACUTE", "R", "I", "O", " ", "C", "A", "I", "X", "A">>
S_NUMERARIO_CAIXA == <<"N", "U", "M", "E", "R", "A", "R", "I", "O", " ", "C", "A", "I", "X", "A">>
S_QUOTAS_NORMAIS == <<"Q", "U", "O", "T", "A", "S", " ", "N", "O", "R", "M", "A", "I", "S">>
S_QUOTAS_EXTRAS == <<"Q", "U", "O", "T", "A", "S", " ", "E", "X", "T", "R", "A", "S">>
S_JUROS == <<"J", "U", "R", "O", "S">>
S_TOTAIS == <<"T", "O", "T", "A", "I", "S">>

meses == <<"jan", "fev", "mar", "abr", "mai", "jun",
           "jul", "ago", "set", "out", "nov", "dez">>

(***************************************************************************)
(* ler_dbf: the rows of a table of the folder `corrente`, or [] when       *)
(* opening or reading it raises.                                           *)
(***************************************************************************)
DBF(ficheiro) ==
    IF ficheiro.state = "ok"
    THEN [ok |-> TRUE, rows |-> ficheiro.rows]
    ELSE [ok |-> FALSE, rows |-> <<>>]

ler_dbf(nome_ficheiro) ==
    LET tabela == DBF(corrente[nome_ficheiro])
    IN  IF tabela.ok THEN tabela.rows ELSE <<>>

(***************************************************************************)
(* index(): the overview.  IndexRow is the body of the loop for one row    *)
(* whose valor coerced; IndexLoop stops at the first row whose coercion    *)
(* raises, leaving the locals as they were.                                *)
(***************************************************************************)
IndexLocals ==
    [total_receitas |-> 0, total_despesas |-> 0, saldo_anterior |-> 0,
     saldo_final |-> 0, scanned |-> 0, raised |-> FALSE]

\* mutant: every slot accumulates instead of being overwritten
IndexRow_soma(st, conta, tipo, valor) ==
    IF In(S_TSA, conta) THEN [st EXCEPT !.saldo_anterior = FAdd(@, valor)]
    ELSE IF tipo = S_SUBTOTAL /\ In(S_SALDO, conta) /\ In(S_ANTERIOR, conta)
        THEN [st EXCEPT !.saldo_anterior = FAdd(@, valor)]
    ELSE IF In(S_TOTAL, conta) /\ In(S_SALDO, conta) /\ In(S_ANTERIOR, conta)
        THEN [st EXCEPT !.saldo_anterior = FAdd(@, valor)]
    ELSE IF tipo = S_SUBTOTAL /\ In(S_RECEITAS, conta)
        THEN [st EXCEPT !.total_receitas = FAdd(@, valor)]
    ELSE IF In(S_TOTAL, conta) /\ In(S_RECEITAS, conta)
        THEN [st EXCEPT !.total_receitas = FAdd(@, valor)]
    ELSE IF tipo = S_SUBTOTAL /\ In(S_DESPESAS, conta)
        THEN [st EXCEPT !.total_despesas = FAdd(@, valor)]
    ELSE IF In(S_TOTAL, conta) /\ In(S_DESPESAS, conta)
        THEN [st EXCEPT !.total_despesas = FAdd(@, valor)]
    ELSE IF tipo = S_SALDO /\ In(S_FINAL, conta)
        THEN [st EXCEPT !.saldo_final = valor]
    ELSE IF tipo = S_TOTAL /\ conta = S_TOTAL
        THEN IF st.saldo_final = 0 THEN [st EXCEPT !.saldo_final = valor] ELSE st
    ELSE st

IndexRow(st, conta, tipo, valor) ==
    IF In(S_TSA, conta) THEN [st EXCEPT !.saldo_anterior = valor]
    ELSE IF tipo = S_SUBTOTAL /\ In(S_SALDO, conta) /\ In(S_ANTERIOR, conta)
        THEN [st EXCEPT !.saldo_anterior = valor]
    ELSE IF In(S_TOTAL, conta) /\ In(S_SALDO, conta) /\ In(S_ANTERIOR, conta)
        THEN [st EXCEPT !.saldo_anterior = valor]
    ELSE IF tipo = S_SUBTOTAL /\ In(S_RECEITAS, conta)
        THEN [st EXCEPT !.total_receitas = valor]
    ELSE IF In(S_TOTAL, conta) /\ In(S_RECEITAS, conta)
        THEN [st EXCEPT !.total_receitas = valor]
    ELSE IF tipo = S_SUBTOTAL /\ In(S_DESPESAS, conta)
        THEN [st EXCEPT !.total_despesas = valor]
    ELSE IF In(S_TOTAL, conta) /\ In(S_DESPESAS, conta)
        THEN [st EXCEPT !.total_despesas = valor]
    ELSE IF tipo = S_SALDO /\ In(S_FINAL, conta)
        THEN [st EXCEPT !.saldo_final = valor]
    ELSE IF tipo = S_TOTAL /\ conta = S_TOTAL
        THEN IF st.saldo_final = 0 THEN [st EXCEPT !.saldo_final = valor] ELSE st
    ELSE st

RECURSIVE IndexLoop(_, _, _)
IndexLoop(rows, i, st) ==
    IF i > Len(rows) THEN st
    ELSE LET linha == rows[i]
             conta == upper(strip(Get(linha, "conta", <<>>)))
             tipo == upper(strip(Get(linha, "tipo", <<>>)))
             valor == Coerce(linha, "valor")
         IN  IF ~valor.ok THEN [st EXCEPT !.raised = TRUE]
             ELSE IndexLoop(rows, i + 1,
                            [IndexRow(st, conta, tipo, valor.val) EXCEPT !.scanned = i])

\* mutant: the expenses are added instead of subtracted
IndexFallback_soma(st) ==
    IF st.saldo_final = 0
    THEN [st EXCEPT !.saldo_final =
              FAdd(FAdd(st.saldo_anterior, st.total_receitas), st.total_despesas)]
    ELSE st

IndexFallback(st) ==
    IF st.saldo_final = 0
    THEN [st EXCEPT !.saldo_final =
              FSub(FAdd(st.saldo_anterior, st.total_receitas), st.total_despesas)]
    ELSE st

IndexResumo(st) ==
    IF st.raised
    THEN [total_receitas |-> "0.00", total_despesas |-> "0.00",
          saldo_anterior |-> "0.00", saldo_final |-> "0.00"]
    ELSE [total_receitas |-> Fmt2(st.total_receitas),
          total_despesas |-> Fmt2(st.total_despesas),
          saldo_anterior |-> Fmt2(st.saldo_anterior),
          saldo_final |-> Fmt2(st.saldo_final)]

IndexEnd(st) == IF st.raised THEN st ELSE IndexFallback(st)

index ==
    /\ frame' = IndexEnd(IndexLoop(ler_dbf("Balanco.dbf"), 1, IndexLocals))
    /\ response' = [view |-> "index", outcome |-> "rendered",
                    template |-> "index.html", resumo |-> IndexResumo(frame')]
    /\ UNCHANGED corrente

(***************************************************************************)
(* dashboard(): two per-fraction maps, the expense-by-month series and the *)
(* balance composition.  A dict is a function; {} is the empty function.   *)
(***************************************************************************)
\* [float(linha.get(mes, 0) or 0) for mes in meses]
MonthValues(linha) ==
    [ok |-> \A i \in 1..Len(meses) : Coerce(linha, meses[i]).ok,
     vals |-> [i \in 1..Len(meses) |-> Coerce(linha, meses[i]).val]]

RECURSIVE FracoesLoop(_, _, _)
FracoesLoop(rows, i, acc) ==
    IF i > Len(rows) THEN [ok |-> TRUE, map |-> acc]
    ELSE LET linha == rows[i]
             fracao == strip(Get(linha, "fraccao", <<>>))
         IN  IF fracao # <<>> /\ upper(fracao) # S_TOTAIS
             THEN LET mv == MonthValues(linha)
                  IN  IF ~mv.ok THEN [ok |-> FALSE, map |-> acc]
                      ELSE FracoesLoop(rows, i + 1, (fracao :> mv.vals) @@ acc)
             ELSE FracoesLoop(rows, i + 1, acc)

RECURSIVE DespesasMensaisLoop(_, _)
DespesasMensaisLoop(rows, i) ==
    IF i > Len(rows) THEN [ok |-> TRUE, vals |-> <<>>]
    ELSE IF upper(strip(Get(rows[i], "despesas", <<>>))) = S_TOTAIS
         THEN MonthValues(rows[i])
         ELSE DespesasMensaisLoop(rows, i + 1)

DespesasMensais(rows) ==
    LET found == DespesasMensaisLoop(rows, 1)
    IN  IF found.ok /\ found.vals = <<>>
        THEN [ok |-> TRUE, vals |-> [i \in 1..12 |-> 0]]
        ELSE found

DashboardLocals ==
    [rec_n_fracoes |-> <<>>, rec_e_fracoes |-> <<>>, despesas_mensais |-> <<>>,
     total_receitas |-> 0, total_despesas |-> 0, saldo_anterior |-> 0,
     saldo_final |-> 0, scanned |-> 0, raised |-> FALSE]

\* mutant: the generic TOTAL row always overwrites the final balance
DashboardRow_ultimo(st, conta, tipo, valor) ==
    IF In(S_TSA, conta) THEN [st EXCEPT !.saldo_anterior = valor]
    ELSE IF tipo = S_SUBTOTAL /\ In(S_SALDO, conta) /\ In(S_ANTERIOR, conta)
        THEN [st EXCEPT !.saldo_anterior = valor]
    ELSE IF tipo = S_SUBTOTAL /\ In(S_RECEITAS, conta)
        THEN [st EXCEPT !.total_receitas = valor]
    ELSE IF tipo = S_SUBTOTAL /\ In(S_DESPESAS, conta)
        THEN [st EXCEPT !.total_despesas = valor]
    ELSE IF tipo = S_SALDO /\ In(S_FINAL, conta)
        THEN [st EXCEPT !.saldo_final = valor]
    ELSE IF tipo = S_TOTAL /\ conta = S_TOTAL
        THEN [st EXCEPT !.saldo_final = valor]
    ELSE st

DashboardRow(st, conta, tipo, valor) ==
    IF In(S_TSA, conta) THEN [st EXCEPT !.saldo_anterior = valor]
    ELSE IF tipo = S_SUBTOTAL /\ In(S_SALDO, conta) /\ In(S_ANTERIOR, conta)
        THEN [st EXCEPT !.saldo_anterior = valor]
    ELSE IF tipo = S_SUBTOTAL /\ In(S_RECEITAS, conta)
        THEN [st EXCEPT !.total_receitas = valor]
    ELSE IF tipo = S_SUBTOTAL /\ In(S_DESPESAS, conta)
        THEN [st EXCEPT !.total_despesas = valor]
    ELSE IF tipo = S_SALDO /\ In(S_FINAL, conta)
        THEN [st EXCEPT !.saldo_final = valor]
    ELSE IF tipo = S_TOTAL /\ conta = S_TOTAL
        THEN IF st.saldo_final = 0 THEN [st EXCEPT !.saldo_final = valor] ELSE st
    ELSE st

RECURSIVE DashboardLoop(_, _, _)
DashboardLoop(rows, i, st) ==
    IF i > Len(rows) THEN st
    ELSE LET linha == rows[i]
             conta == upper(strip(Get(linha, "conta", <<>>)))
             tipo == upper(strip(Get(linha, "tipo", <<>>)))
             valor == Coerce(linha, "valor")
         IN  IF ~valor.ok THEN [st EXCEPT !.raised = TRUE]
             ELSE DashboardLoop(rows, i + 1,
                    [DashboardRow(st, conta, tipo, valor.val) EXCEPT !.scanned = i])

DashboardFallback(st) ==
    IF st.saldo_final = 0
    THEN [st EXCEPT !.saldo_final =
              FSub(FAdd(st.saldo_anterior, st.total_receitas), st.total_despesas)]
    ELSE st

BalancoData(st) ==
    [saldo_anterior |-> st.saldo_anterior,
     total_receitas |-> st.total_receitas,
     total_despesas |-> st.total_despesas,
     saldo_corrente |-> FSub(st.total_receitas, st.total_despesas),
     saldo_final |-> st.saldo_final]

\* The try block up to the loop over Balanco.dbf: the three per-month tables.
DashboardTables(rec_n, rec_e, mensais) ==
    IF rec_n.ok /\ rec_e.ok /\ mensais.ok
    THEN [DashboardLocals EXCEPT !.rec_n_fracoes = rec_n.map,
                                 !.rec_e_fracoes = rec_e.map,
                                 !.despesas_mensais = mensais.vals]
    ELSE [DashboardLocals EXCEPT !.raised = TRUE]

DashboardTry(st, balanco_dbf) ==
    IF st.raised THEN st ELSE DashboardLoop(balanco_dbf, 1, st)

DashboardEnd(st) == IF st.raised THEN st ELSE DashboardFallback(st)

DashboardResponse(st) ==
    IF st.raised
    THEN [view |-> "dashboard", outcome |-> "rendered",
          template |-> "dashboard.html",
          rec_n_fracoes |-> <<>>, rec_e_fracoes |-> <<>>,
          despesas_mensais |-> <<>>, balanco |-> <<>>]
    ELSE [view |-> "dashboard", outcome |-> "rendered",
          template |-> "dashboard.html",
          rec_n_fracoes |-> st.rec_n_fracoes, rec_e_fracoes |-> st.rec_e_fracoes,
          despesas_mensais |-> st.despesas_mensais, balanco |-> BalancoData(st)]

dashboard ==
    /\ frame' = DashboardEnd(DashboardTry(
                    DashboardTables(FracoesLoop(ler_dbf("ReceitasN.dbf"), 1, <<>>),
                                    FracoesLoop(ler_dbf("ReceitasE.dbf"), 1, <<>>),
                                    DespesasMensais(ler_dbf("Despesas.dbf"))),
                    ler_dbf("Balanco.dbf")))
    /\ response' = DashboardResponse(frame')
    /\ UNCHANGED corrente

(***************************************************************************)
(* balanco(): the balance sheet.  The view has no try/except: a raise in   *)
(* the loop leaves the view (outcome "raised").                            *)
(***************************************************************************)
BalancoLocals ==
    [despesas_lista |-> <<>>, total_despesas |-> 0, total_receitas |-> 0,
     quotas_normais |-> 0, quotas_extras |-> 0, juros |-> 0,
     saldo_anterior_total |-> 0, deposito_ordem |-> 0, numerario_caixa |-> 0,
     saldo_final |-> 0, total_creditos |-> 0, total_debitos |-> 0,
     scanned |-> 0, raised |-> FALSE]

\* mutant: a new expense is put at the head of the list
BalancoRow_cabeca(st, nome, conta, tipo, valor) ==
    IF tipo = S_DESPESA
        THEN [st EXCEPT !.despesas_lista =
                  <<[nome |-> nome, valor |-> valor]>> \o @]
    ELSE IF In(S_TSA, conta) THEN [st EXCEPT !.saldo_anterior_total = valor]
    ELSE IF tipo = S_SUBTOTAL /\ In(S_SALDO, conta) /\ In(S_ANTERIOR, conta)
        THEN [st EXCEPT !.saldo_anterior_total = valor]
    ELSE IF In(S_DEPOSITO_ORDEM_ACENTO, conta) \/ In(S_DEPOSITO_ORDEM, conta)
        THEN [st EXCEPT !.deposito_ordem = valor]
    ELSE IF In(S_NUMERARIO_CAIXA_ACENTO, conta) \/ In(S_NUMERARIO_CAIXA, conta)
        THEN [st EXCEPT !.numerario_caixa = valor]
    ELSE IF tipo = S_SUBTOTAL /\ In(S_DESPESAS, conta)
        THEN [st EXCEPT !.total_despesas = valor]
    ELSE IF In(S_QUOTAS_NORMAIS, conta) THEN [st EXCEPT !.quotas_normais = valor]
    ELSE IF In(S_QUOTAS_EXTRAS, conta) THEN [st EXCEPT !.quotas_extras = valor]
    ELSE IF In(S_JUROS, conta) /\ tipo = S_RECEITA THEN [st EXCEPT !.juros = valor]
    ELSE IF tipo = S_SUBTOTAL /\ In(S_RECEITAS, conta)
        THEN [st EXCEPT !.total_receitas = valor]
    ELSE IF tipo = S_SALDO /\ In(S_FINAL, conta)
        THEN [st EXCEPT !.saldo_final = valor]
    ELSE st

BalancoRow(st, nome, conta, tipo, valor) ==
    IF tipo = S_DESPESA
        THEN [st EXCEPT !.despesas_lista =
                  Append(@, [nome |-> nome, valor |-> valor])]
    ELSE IF In(S_TSA, conta) THEN [st EXCEPT !.saldo_anterior_total = valor]
    ELSE IF tipo = S_SUBTOTAL /\ In(S_SALDO, conta) /\ In(S_ANTERIOR, conta)
        THEN [st EXCEPT !.saldo_anterior_total = valor]
    ELSE IF In(S_DEPOSITO_ORDEM_ACENTO, conta) \/ In(S_DEPOSITO_ORDEM, conta)
        THEN [st EXCEPT !.deposito_ordem = valor]
    ELSE IF In(S_NUMERARIO_CAIXA_ACENTO, conta) \/ In(S_NUMERARIO_CAIXA, conta)
        THEN [st EXCEPT !.numerario_caixa = valor]
    ELSE IF tipo = S_SUBTOTAL /\ In(S_DESPESAS, conta)
        THEN [st EXCEPT !.total_despesas = valor]
    ELSE IF In(S_QUOTAS_NORMAIS, conta) THEN [st EXCEPT !.quotas_normais = valor]
    ELSE IF In(S_QUOTAS_EXTRAS, conta) THEN [st EXCEPT !.quotas_extras = valor]
    ELSE IF In(S_JUROS, conta) /\ tipo = S_RECEITA THEN [st EXCEPT !.juros = valor]
    ELSE IF tipo = S_SUBTOTAL /\ In(S_RECEITAS, conta)
        THEN [st EXCEPT !.total_receitas = valor]
    ELSE IF tipo = S_SALDO /\ In(S_FINAL, conta)
        THEN [st EXCEPT !.saldo_final = valor]
    ELSE st

RECURSIVE BalancoLoop(_, _, _)
BalancoLoop(rows, i, st) ==
    IF i > Len(rows) THEN st
    ELSE LET linha == rows[i]
             conta == upper(strip(Get(linha, "conta", <<>>)))
             tipo == upper(strip(Get(linha, "tipo", <<>>)))
             valor == Coerce(linha, "valor")
             nome == strip(Get(linha, "conta", <<>>))
         IN  IF ~valor.ok THEN [st EXCEPT !.raised = TRUE]
             ELSE BalancoLoop(rows, i + 1,
                    [BalancoRow(st, nome, conta, tipo, valor.val) EXCEPT !.scanned = i])

\* "Cálculos finais"
BalancoFinais(st) ==
    LET total_creditos == FAdd(st.saldo_anterior_total, st.total_receitas)
        saldo_final == IF st.saldo_final = 0
                       THEN FSub(total_creditos, st.total_despesas)
                       ELSE st.saldo_final
        total_debitos == FAdd(st.total_despesas, saldo_final)
    IN  [st EXCEPT !.total_creditos = total_creditos,
                   !.saldo_final = saldo_final,
                   !.total_debitos = total_debitos]

BalancoEnd(st) == IF st.raised THEN st ELSE BalancoFinais(st)

BalancoResponse(st) ==
    IF st.raised
    THEN [view |-> "balanco", outcome |-> "raised"]
    ELSE [view |-> "balanco", outcome |-> "rendered",
          template |-> "balanco.html",
          despesas |-> st.despesas_lista,
          total_despesas |-> st.total_despesas,
          saldo_anterior |-> [deposito_poupanca |-> 0,
                              deposito_ordem |-> st.deposito_ordem,
                              numerario_caixa |-> st.numerario_caixa,
                              total |-> st.saldo_anterior_total],
          receitas |-> [quotas_normais |-> st.quotas_normais,
                        quotas_extras |-> st.quotas_extras,
                        juros |-> st.juros,
                        total |-> st.total_receitas],
          saldo_final |-> st.saldo_final,
          total_debitos |-> st.total_debitos,
          total_creditos |-> st.total_creditos]

balanco ==
    /\ frame' = BalancoEnd(BalancoLoop(ler_dbf("Balanco.dbf"), 1, BalancoLocals))
    /\ response' = BalancoResponse(frame')
    /\ UNCHANGED corrente

(***************************************************************************)
(* Inputs: the raw text and the rows the tables may hold.                  *)
(***************************************************************************)
T_tsa_spaced == <<" ", "t", "s", "a", " ">>
T_despesa_lower == <<"d", "e", "s", "p", "e", "s", "a">>
T_total_saldo_anterior == <<"T", "o", "t", "a", "l", " ", "s", "a", "l", "d", "o", " ", "a", "n", "t", "e", "r", "i", "o", "r">>
T_saldo_anterior == <<"S", "a", "l", "d", "o", " ", "A", "n", "t", "e", "r", "i", "o", "r">>
T_TOTAL_RECEITAS == <<"T", "O", "T", "A", "L", " ", "R", "E", "C", "E", "I", "T", "A", "S">>
T_receitas == <<"R", "e", "c", "e", "i", "t", "a", "s">>
T_TOTAL_DESPESAS == <<"T", "O", "T", "A", "L", " ", "D", "E", "S", "P", "E", "S", "A", "S">>
T_despesas == <<"D", "e", "s", "p", "e", "s", "a", "s">>
T_subtotal_spaced == <<" ", "s", "u", "b", "t", "o", "t", "a", "l", " ">>
T_SALDO_FINAL == <<"S", "A", "L", "D", "O", " ", "F", "I", "N", "A", "L">>
T_Luz == <<"L", "u", "z">>
T_Agua == <<"A", "g", "u", "a">>
T_Agua_spaced == <<" ", "A", "g", "u", "a", " ">>
T_deposito_acento == <<"D", "e", "p", "o_acute", "s", "i", "t", "o", " ", "O", "r", "d", "e", "m">>
T_numerario_acento == <<"N", "u", "m", "e", "r", "a_acute", "r", "i", "o", " ", "C", "a", "i", "x", "a">>
T_abc == <<"a", "b", "c">>
T_20 == <<"2", "0">>
T_QUOTAS_NORMAIS_RECEITAS == <<"Q", "U", "O", "T", "A", "S", " ", "N", "O", "R", "M", "A", "I", "S", " ", "R", "E", "C", "E", "I", "T", "A", "S">>
T_A == <<"A">>
T_B_spaced == <<" ", "B", " ">>
T_totais_spaced == <<"T", "o", "t", "a", "i", "s", " ">>

Row(conta, tipo, valor) == [conta |-> conta, tipo |-> tipo, valor |-> valor]

\* Rows that decide the balances, taken in sequences of up to MaxCoreRows.
CoreRows ==
    { Row(S_TSA, S_SUBTOTAL, Num(10)),
      Row(T_receitas, S_SUBTOTAL, Num(20)),
      Row(T_despesas, T_subtotal_spaced, Num(10)),
      Row(T_SALDO_FINAL, S_SALDO, Num(20)),
      Row(T_SALDO_FINAL, S_SALDO, Num(0)),
      Row(S_TOTAL, S_TOTAL, Num(10)),
      Row(S_TOTAL, S_TOTAL, Num(20)),
      Row(S_TOTAL, S_TOTAL, Num(0)) }

\* Every kind of row, taken in sequences of up to MaxRows.
FullRows ==
    { Row(S_TSA, S_SUBTOTAL, Num(10)),
      Row(S_TSA, S_SUBTOTAL, Str(T_abc)),
      Row(T_receitas, S_SUBTOTAL, Num(20)),
      Row(T_despesas, T_subtotal_spaced, Num(10)),
      Row(T_SALDO_FINAL, S_SALDO, Num(20)),
      Row(S_TOTAL, S_TOTAL, Num(10)),
      Row(T_Luz, S_DESPESA, Num(10)),
      Row(T_tsa_spaced, T_despesa_lower, Num(10)),
      Row(T_total_saldo_anterior, S_TOTAL, Num(20)),
      Row(T_saldo_anterior, S_SUBTOTAL, Num(20)),
      Row(T_TOTAL_RECEITAS, S_TOTAL, Str(T_20)),
      Row(T_TOTAL_DESPESAS, S_TOTAL, Num(30)),
      Row(T_Agua_spaced, S_DESPESA, None),
      Row(T_deposito_acento, S_SALDO, Num(20)),
      Row(S_DEPOSITO_ORDEM, S_SALDO, Num(10)),
      Row(T_numerario_acento, S_SALDO, Num(10)),
      Row(S_QUOTAS_NORMAIS, S_RECEITA, Num(20)),
      Row(T_QUOTAS_NORMAIS_RECEITAS, S_SUBTOTAL, Num(10)),
      Row(S_QUOTAS_EXTRAS, S_RECEITA, Num(20)),
      Row(S_JUROS, S_RECEITA, Num(10)),
      Row(S_JUROS, <<>>, Num(20)),
      [conta |-> S_TSA, tipo |-> S_SUBTOTAL],
      [valor |-> Num(20)] }

SeqsUpTo(S, n) == UNION { [1..k -> S] : k \in 0..n }

\* The ledgers of the examples of the specification and of binary rounding.
NamedLedgers ==
    { << Row(S_TSA, S_SUBTOTAL, Num(100)),
         Row(T_TOTAL_RECEITAS, S_TOTAL, Num(50)),
         Row(T_TOTAL_DESPESAS, S_TOTAL, Num(30)) >>,
      << Row(S_TSA, S_SUBTOTAL, Num(258)),
         Row(T_despesas, S_SUBTOTAL, Num(1)) >>,
      << Row(T_Luz, S_DESPESA, Num(10)),
         Row(T_Agua_spaced, S_DESPESA, Num(20)),
         Row(T_Luz, S_DESPESA, Num(10)),
         Row(T_Agua, S_DESPESA, Num(10)) >> }

LedgerRows == SeqsUpTo(FullRows, MaxRows) \cup SeqsUpTo(CoreRows, MaxCoreRows)
                  \cup NamedLedgers

Ok(rows) == [state |-> "ok", rows |-> rows]
Missing == [state |-> "missing"]
Unreadable == [state |-> "unreadable"]

\* The month fields of a row of a per-month table.
M_todos ==
    [jan |-> Num(1), fev |-> Num(2), mar |-> Num(3), abr |-> Num(4),
     mai |-> Num(5), jun |-> Num(6), jul |-> Num(7), ago |-> Num(8),
     set |-> Num(9), out |-> Num(10), nov |-> Num(11), dez |-> Num(12)]
M_alguns == [jan |-> Num(5), fev |-> None, dez |-> Str(T_20)]
M_texto == [mar |-> Str(T_abc)]

TableRows(campo) ==
    { (campo :> l) @@ m : l \in { T_A, S_TOTAIS }, m \in { M_todos, M_alguns, M_texto } }
      \cup { (campo :> T_B_spaced) @@ M_todos,
             (campo :> T_totais_spaced) @@ M_alguns,
             M_alguns }

TableFiles(campo) == { Ok(t) : t \in SeqsUpTo(TableRows(campo), MaxTableRows) }
                         \cup { Missing }

SmallLedgers ==
    { Ok(<< Row(S_TSA, S_SUBTOTAL, Num(10)) >>),
      Ok(<< Row(S_TSA, S_SUBTOTAL, Str(T_abc)) >>) }

NoResponse == [view |-> "none", outcome |-> "none"]

Folder(b, n, e, d) ==
    [x \in {"Balanco.dbf", "ReceitasN.dbf", "ReceitasE.dbf", "Despesas.dbf"} |->
        CASE x = "Balanco.dbf" -> b [] x = "ReceitasN.dbf" -> n
          [] x = "ReceitasE.dbf" -> e [] OTHER -> d]

Init ==
    /\ response = NoResponse
    /\ frame = NoResponse
    /\ \/ \E b \in { Ok(l) : l \in LedgerRows } \cup { Missing, Unreadable } :
             corrente = Folder(b, Ok(<<>>), Ok(<<>>), Ok(<<>>))
       \/ \E b \in SmallLedgers, n \in TableFiles("fraccao") :
             corrente = Folder(b, n, Ok(<<>>), Ok(<<>>))
       \/ \E b \in SmallLedgers, e \in TableFiles("fraccao") :
             corrente = Folder(b, Ok(<<>>), e, Ok(<<>>))
       \/ \E b \in SmallLedgers, d \in TableFiles("despesas") :
             corrente = Folder(b, Ok(<<>>), Ok(<<>>), d)

Next == index \/ dashboard \/ balanco

Spec == Init /\ [][Next]_vars


(***************************************************************************)
(* Vocabulary of the properties.                                           *)
(***************************************************************************)
Ledger == ler_dbf("Balanco.dbf")
Conta(r) == upper(strip(Get(r, "conta", <<>>)))
Tipo(r) == upper(strip(Get(r, "tipo", <<>>)))
Amount(r) == Coerce(r, "valor").val
Prefix(rows, n) == SubSeq(rows, 1, n)

IsSaldoFinalRow(r) == Tipo(r) = S_SALDO /\ In(S_FINAL, Conta(r))
IsTotalTotalRow(r) == Tipo(r) = S_TOTAL /\ Conta(r) = S_TOTAL

NoFinalBalanceRow ==
    \A i \in 1..Len(Ledger) :
        ~IsSaldoFinalRow(Ledger[i]) /\ ~IsTotalTotalRow(Ledger[i])

\* previous + income - expense, evaluated left to right in floats
Derived(previous, income, expense) == FSub(FAdd(previous, income), expense)

\* The numbers whose two-decimal formats the overview passes to its template.
IndexValues ==
    IF frame.raised
    THEN [saldo_anterior |-> 0, total_receitas |-> 0, total_despesas |-> 0,
          saldo_final |-> 0]
    ELSE [saldo_anterior |-> frame.saldo_anterior,
          total_receitas |-> frame.total_receitas,
          total_despesas |-> frame.total_despesas,
          saldo_final |-> frame.saldo_final]

IndexReports(v) ==
    response.resumo = [saldo_anterior |-> Fmt2(v.saldo_anterior),
                       total_receitas |-> Fmt2(v.total_receitas),
                       total_despesas |-> Fmt2(v.total_despesas),
                       saldo_final |-> Fmt2(v.saldo_final)]

DashboardReportsBalance ==
    response.view = "dashboard" /\ "saldo_final" \in DOMAIN response.balanco

BalancoRendered == response.view = "balanco" /\ response.outcome = "rendered"

(***************************************************************************)
(* C1  Fallback derivation.  When no row of the ledger matches a final-    *)
(* balance rule (type SALDO with FINAL in the label, or type TOTAL with    *)
(* the label TOTAL), every final balance a view reports equals             *)
(* previous_balance + total_income - total_expense of the values the same  *)
(* view reports: the overview (whose four strings are the formats of such  *)
(* values), the dashboard and the balance sheet.                           *)
(***************************************************************************)
C1_FallbackDerivation ==
    NoFinalBalanceRow =>
      /\ response.view = "index" =>
            /\ IndexReports(IndexValues)
            /\ IndexValues.saldo_final =
                  Derived(IndexValues.saldo_anterior, IndexValues.total_receitas,
                          IndexValues.total_despesas)
      /\ DashboardReportsBalance =>
            response.balanco.saldo_final =
               Derived(response.balanco.saldo_anterior,
                       response.balanco.total_receitas,
                       response.balanco.total_despesas)
      /\ BalancoRendered =>
            response.saldo_final =
               Derived(response.saldo_anterior.total, response.receitas.total,
                       response.total_despesas)

C1_Witness ==
    /\ NoFinalBalanceRow
    /\ BalancoRendered
    /\ response.saldo_anterior.total = 10
    /\ response.receitas.total = 20
    /\ response.total_despesas = 10
    /\ response.saldo_final = 20


(***************************************************************************)
(* C5  Last match wins.  After a view's loop has run, each of the slots    *)
(* previous balance, total income, total expense, deposito_ordem,          *)
(* numerario_caixa, quotas_normais, quotas_extras and juros holds the      *)
(* amount of the last row, in input order, that the loop classified into   *)
(* the slot, and 0 when it classified none; it is never a sum.  A row is   *)
(* classified into a slot when the loop body, run on that row alone,       *)
(* writes the slot; the rows the loop classified are those up to           *)
(* frame.scanned, all the rows of the ledger whenever the view renders     *)
(* the slots, and the values rendered are then those of the slots.         *)
(***************************************************************************)
IndexSets(slot, r) == IndexRow(IndexLocals, Conta(r), Tipo(r), 1)[slot] = 1

DashboardSets(slot, r) ==
    DashboardRow(DashboardLocals, Conta(r), Tipo(r), 1)[slot] = 1

BalancoSets(slot, r) ==
    BalancoRow(BalancoLocals, strip(Get(r, "conta", <<>>)), Conta(r), Tipo(r), 1)[slot] = 1

\* The amount of the last of the first j rows that Sets puts in the slot.
RECURSIVE LastHit(_, _, _, _)
LastHit(rows, Sets(_, _), slot, j) ==
    IF j = 0 THEN 0
    ELSE IF Sets(slot, rows[j]) THEN Amount(rows[j])
    ELSE LastHit(rows, Sets, slot, j - 1)

SummarySlots == { "saldo_anterior", "total_receitas", "total_despesas" }

BalancoSlots ==
    { "saldo_anterior_total", "total_receitas", "total_despesas", "deposito_ordem",
      "numerario_caixa", "quotas_normais", "quotas_extras", "juros" }

C5_LastMatchWins ==
    /\ response.view = "index" =>
          /\ \A slot \in SummarySlots :
                frame[slot] = LastHit(Ledger, IndexSets, slot, frame.scanned)
          /\ ~frame.raised =>
                /\ frame.scanned = Len(Ledger)
                /\ \A slot \in SummarySlots : response.resumo[slot] = Fmt2(frame[slot])
    /\ response.view = "dashboard" =>
          /\ \A slot \in SummarySlots :
                frame[slot] = LastHit(Ledger, DashboardSets, slot, frame.scanned)
          /\ ~frame.raised =>
                /\ frame.scanned = Len(Ledger)
                /\ \A slot \in SummarySlots : response.balanco[slot] = frame[slot]
    /\ response.view = "balanco" =>
          /\ \A slot \in BalancoSlots :
                frame[slot] = LastHit(Ledger, BalancoSets, slot, frame.scanned)
          /\ response.outcome = "rendered" =>
                /\ frame.scanned = Len(Ledger)
                /\ response.saldo_anterior.total = frame.saldo_anterior_total
                /\ response.saldo_anterior.deposito_ordem = frame.deposito_ordem
                /\ response.saldo_anterior.numerario_caixa = frame.numerario_caixa
                /\ response.receitas.total = frame.total_receitas
                /\ response.receitas.quotas_normais = frame.quotas_normais
                /\ response.receitas.quotas_extras = frame.quotas_extras
                /\ response.receitas.juros = frame.juros
                /\ response.total_despesas = frame.total_despesas

C5_Witness ==
    /\ response.view = "index"
    /\ Len(Ledger) = 2
    /\ frame.scanned = 2
    /\ IndexSets("total_receitas", Ledger[1])
    /\ IndexSets("total_receitas", Ledger[2])
    /\ Amount(Ledger[1]) = 20
    /\ Amount(Ledger[2]) = 10
    /\ frame.total_receitas = 10
    /\ response.resumo.total_receitas = "10.00"

(***************************************************************************)
(* C8  Detail ordering.  The list of expenses of the balance sheet is the  *)
(* subsequence of the rows of normalized type DESPESA, in input order,     *)
(* one entry per row, each with the trimmed label in its original case and *)
(* the amount; no other row adds an entry.                                 *)
(***************************************************************************)
IsDespesaRow(r) == Tipo(r) = S_DESPESA

DetailList(rows) ==
    LET sel == SelectSeq(rows, IsDespesaRow)
    IN  [i \in 1..Len(sel) |->
            [nome |-> strip(Get(sel[i], "conta", <<>>)), valor |-> Amount(sel[i])]]

C8_DetailOrdering ==
    response.view = "balanco" =>
        /\ frame.despesas_lista = DetailList(Prefix(Ledger, frame.scanned))
        /\ response.outcome = "rendered" => response.despesas = DetailList(Ledger)

C8_Witness ==
    /\ BalancoRendered
    /\ Len(Ledger) = 4
    /\ response.despesas =
          << [nome |-> T_Luz, valor |-> 10], [nome |-> T_Agua, valor |-> 20],
             [nome |-> T_Luz, valor |-> 10], [nome |-> T_Agua, valor |-> 10] >>

(***************************************************************************)
(* C10  Empty input and unavailable source.  A table that is missing or    *)
(* unreadable reads as the empty row sequence; with no rows the overview   *)
(* passes four strings 0.00, the balance sheet passes zero in every slot,  *)
(* in total_creditos and in total_debitos and an empty list of expenses,   *)
(* and the dashboard (all four tables empty) passes empty per-fraction     *)
(* maps and a balance composition of zeros.                                *)
(***************************************************************************)
AllTablesEmpty == \A nome \in DOMAIN corrente : ler_dbf(nome) = <<>>

C10_EmptyInput ==
    /\ \A nome \in DOMAIN corrente :
          corrente[nome].state # "ok" => ler_dbf(nome) = <<>>
    /\ response.view = "index" /\ Ledger = <<>> =>
          response.resumo = [total_receitas |-> "0.00", total_despesas |-> "0.00",
                             saldo_anterior |-> "0.00", saldo_final |-> "0.00"]
    /\ response.view = "balanco" /\ Ledger = <<>> =>
          /\ response.outcome = "rendered"
          /\ response.despesas = <<>>
          /\ response.total_despesas = 0
          /\ response.saldo_anterior =
                [deposito_poupanca |-> 0, deposito_ordem |-> 0,
                 numerario_caixa |-> 0, total |-> 0]
          /\ response.receitas =
                [quotas_normais |-> 0, quotas_extras |-> 0, juros |-> 0, total |-> 0]
          /\ response.saldo_final = 0
          /\ response.total_creditos = 0
          /\ response.total_debitos = 0
    /\ response.view = "dashboard" /\ AllTablesEmpty =>
          /\ DOMAIN response.rec_n_fracoes = {}
          /\ DOMAIN response.rec_e_fracoes = {}
          /\ response.balanco =
                [saldo_anterior |-> 0, total_receitas |-> 0, total_despesas |-> 0,
                 saldo_corrente |-> 0, saldo_final |-> 0]

C10_Witness ==
    /\ corrente["Balanco.dbf"].state = "missing"
    /\ response.view = "index"
    /\ response.resumo.saldo_final = "0.00"


(***************************************************************************)
(* The locals of a view's loop after the first n rows of the ledger.       *)
(***************************************************************************)
IndexAfter(n) == IndexLoop(Prefix(Ledger, n), 1, IndexLocals)
DashboardAfter(n) == DashboardLoop(Prefix(Ledger, n), 1, DashboardLocals)
BalancoAfter(n) == BalancoLoop(Prefix(Ledger, n), 1, BalancoLocals)

FinalAfter(view, n) ==
    IF view = "index" THEN IndexAfter(n).saldo_final ELSE DashboardAfter(n).saldo_final

TotalTotalRows(rows) == { j \in 1..Len(rows) : IsTotalTotalRow(rows[j]) }
SaldoFinalRows(rows) == { j \in 1..Len(rows) : IsSaldoFinalRow(rows[j]) }
Min(S) == CHOOSE x \in S : \A y \in S : x <= y

\* The view ran its loop over the whole ledger and reports final balance v.
ReportsFinal(view, v) ==
    /\ response.view = view
    /\ ~frame.raised
    /\ frame.saldo_final = v
    /\ IF view = "index" THEN response.resumo.saldo_final = Fmt2(v)
       ELSE response.balanco.saldo_final = v

(***************************************************************************)
(* C6 as claimed.  First match wins for the generic TOTAL rule: with no    *)
(* SALDO/FINAL row and several rows of type TOTAL labelled TOTAL, the      *)
(* final balance of the overview and of the dashboard is the amount of the *)
(* first of them, whatever that amount (0 included); and such a row never  *)
(* replaces a final balance set by an earlier SALDO/FINAL row.             *)
(***************************************************************************)
C6_FirstTotalWins_AsClaimed ==
    \A view \in { "index", "dashboard" } :
      response.view = view /\ ~frame.raised =>
        /\ SaldoFinalRows(Ledger) = {} /\ Cardinality(TotalTotalRows(Ledger)) >= 2 =>
              ReportsFinal(view, Amount(Ledger[Min(TotalTotalRows(Ledger))]))
        /\ \A j \in TotalTotalRows(Ledger) :
              (\E i \in SaldoFinalRows(Ledger) :
                   i < j /\ FinalAfter(view, i) = Amount(Ledger[i])) =>
                 FinalAfter(view, j) = FinalAfter(view, j - 1)

(***************************************************************************)
(* C6 as amended.  In the overview and the dashboard a row of type TOTAL   *)
(* labelled TOTAL sets the final-balance slot exactly when the slot is     *)
(* still 0.0 as the row is processed, and otherwise leaves it; hence,      *)
(* when the rows processed hold no SALDO/FINAL row and some TOTAL/TOTAL    *)
(* row of non-zero amount, the slot is the amount of the first TOTAL/TOTAL *)
(* row whose amount is not zero, and that is the final balance reported    *)
(* when the loop ran over the whole ledger.                                *)
(***************************************************************************)
NonZeroTotals(rows) == { j \in TotalTotalRows(rows) : Amount(rows[j]) # 0 }

C6_FirstNonZeroTotalWins ==
    /\ response.view = "index" =>
          /\ \A j \in TotalTotalRows(Prefix(Ledger, frame.scanned)) :
                IndexAfter(j).saldo_final =
                   IF IndexAfter(j - 1).saldo_final = 0 THEN Amount(Ledger[j])
                   ELSE IndexAfter(j - 1).saldo_final
          /\ LET rows == Prefix(Ledger, frame.scanned)
             IN  SaldoFinalRows(rows) = {} /\ NonZeroTotals(rows) # {} =>
                    /\ frame.saldo_final = Amount(rows[Min(NonZeroTotals(rows))])
                    /\ ~frame.raised =>
                          response.resumo.saldo_final = Fmt2(frame.saldo_final)
    /\ response.view = "dashboard" =>
          /\ \A j \in TotalTotalRows(Prefix(Ledger, frame.scanned)) :
                DashboardAfter(j).saldo_final =
                   IF DashboardAfter(j - 1).saldo_final = 0 THEN Amount(Ledger[j])
                   ELSE DashboardAfter(j - 1).saldo_final
          /\ LET rows == Prefix(Ledger, frame.scanned)
             IN  SaldoFinalRows(rows) = {} /\ NonZeroTotals(rows) # {} =>
                    /\ frame.saldo_final = Amount(rows[Min(NonZeroTotals(rows))])
                    /\ ~frame.raised =>
                          response.balanco.saldo_final = frame.saldo_final

C6_Witness ==
    /\ response.view = "index"
    /\ Len(Ledger) = 3
    /\ TotalTotalRows(Ledger) = {1, 2, 3}
    /\ Amount(Ledger[1]) = 0
    /\ Amount(Ledger[2]) = 10
    /\ Amount(Ledger[3]) = 20
    /\ response.resumo.saldo_final = "10.00"


(***************************************************************************)
(* C2  Balance-sheet identity.  The balance sheet reports                  *)
(* total_creditos = previous balance + total income and                    *)
(* total_debitos = total expense + final balance, and whenever the final   *)
(* balance was derived by the fallback, total_creditos = total_debitos.    *)
(***************************************************************************)
FinalWasDerived == BalancoAfter(Len(Ledger)).saldo_final = 0

C2_BalanceSheetIdentity ==
    BalancoRendered =>
        /\ response.total_creditos =
              FAdd(response.saldo_anterior.total, response.receitas.total)
        /\ response.total_debitos =
              FAdd(response.total_despesas, response.saldo_final)
        /\ FinalWasDerived => response.total_creditos = response.total_debitos

(***************************************************************************)
(* C3  Total rows recognised by label in every view.  In the overview,     *)
(* the dashboard and the balance sheet alike, a row whose label holds      *)
(* TOTAL and RECEITAS sets total income and one whose label holds TOTAL    *)
(* and DESPESAS sets total expense, whatever its type; so the ledger       *)
(* TSA/SUBTOTAL/100, TOTAL RECEITAS/TOTAL/50, TOTAL DESPESAS/TOTAL/30      *)
(* gives 100, 50, 30, final balance 120, credits 150 and debits 150.       *)
(***************************************************************************)
IsPreviousBalanceLabel(c) == In(S_TSA, c) \/ (In(S_SALDO, c) /\ In(S_ANTERIOR, c))

TotalByLabel(r, word) ==
    /\ In(S_TOTAL, Conta(r)) /\ In(word, Conta(r))
    /\ ~IsPreviousBalanceLabel(Conta(r))
    /\ Coerce(r, "valor").ok

ExampleLedger ==
    << Row(S_TSA, S_SUBTOTAL, Num(100)),
       Row(T_TOTAL_RECEITAS, S_TOTAL, Num(50)),
       Row(T_TOTAL_DESPESAS, S_TOTAL, Num(30)) >>

C3_TotalsByLabelInEveryView ==
    response.view \in { "index", "dashboard", "balanco" } =>
    /\ \A j \in 1..frame.scanned :
          /\ TotalByLabel(Ledger[j], S_RECEITAS) =>
                /\ response.view = "index" => IndexSets("total_receitas", Ledger[j])
                /\ response.view = "dashboard" => DashboardSets("total_receitas", Ledger[j])
                /\ response.view = "balanco" => BalancoSets("total_receitas", Ledger[j])
          /\ TotalByLabel(Ledger[j], S_DESPESAS) /\ ~TotalByLabel(Ledger[j], S_RECEITAS) =>
                /\ response.view = "index" => IndexSets("total_despesas", Ledger[j])
                /\ response.view = "dashboard" => DashboardSets("total_despesas", Ledger[j])
                /\ response.view = "balanco" => BalancoSets("total_despesas", Ledger[j])
    /\ Ledger = ExampleLedger =>
          /\ response.view = "index" =>
                response.resumo = [saldo_anterior |-> "100.00", total_receitas |-> "50.00",
                                   total_despesas |-> "30.00", saldo_final |-> "120.00"]
          /\ response.view = "dashboard" =>
                /\ response.balanco.saldo_anterior = 100
                /\ response.balanco.total_receitas = 50
                /\ response.balanco.total_despesas = 30
                /\ response.balanco.saldo_final = 120
          /\ response.view = "balanco" =>
                /\ response.saldo_anterior.total = 100
                /\ response.receitas.total = 50
                /\ response.total_despesas = 30
                /\ response.saldo_final = 120
                /\ response.total_creditos = 150
                /\ response.total_debitos = 150

(***************************************************************************)
(* C4  Classifier precedence.  In every view a row whose normalized label  *)
(* holds TSA is classified as the previous balance, whatever its type      *)
(* (DESPESA included) and whatever else its label holds: processing it     *)
(* writes its amount to the previous balance and changes nothing else.     *)
(***************************************************************************)
C4_TsaIsPreviousBalance ==
    /\ response.view = "index" =>
          \A j \in 1..frame.scanned :
             In(S_TSA, Conta(Ledger[j])) =>
                IndexAfter(j) = [IndexAfter(j - 1) EXCEPT
                                    !.saldo_anterior = Amount(Ledger[j]), !.scanned = j]
    /\ response.view = "dashboard" =>
          \A j \in 1..frame.scanned :
             In(S_TSA, Conta(Ledger[j])) =>
                DashboardAfter(j) = [DashboardAfter(j - 1) EXCEPT
                                    !.saldo_anterior = Amount(Ledger[j]), !.scanned = j]
    /\ response.view = "balanco" =>
          \A j \in 1..frame.scanned :
             In(S_TSA, Conta(Ledger[j])) =>
                BalancoAfter(j) = [BalancoAfter(j - 1) EXCEPT
                                    !.saldo_anterior_total = Amount(Ledger[j]),
                                    !.scanned = j]

(***************************************************************************)
(* C7  Malformed amounts degrade to zero.  A row whose valor is absent,    *)
(* null or not a number is processed with the amount 0.0 and raises        *)
(* nothing: every view runs its loop over all the rows of the ledger, and  *)
(* no exception leaves a view.                                             *)
(***************************************************************************)
C7_MalformedDegradesToZero ==
    response.view \in { "index", "dashboard", "balanco" } =>
        /\ ~frame.raised
        /\ frame.scanned = Len(Ledger)
        /\ response.outcome = "rendered"

(***************************************************************************)
(* C9  Monthly series and the TOTAIS row.  The per-fraction maps of the    *)
(* dashboard have no key that is empty or TOTAIS (any case, trimmed);      *)
(* every other row's trimmed label is a key mapped to 12 values in the     *)
(* order jan..dez; the expense-by-month series always has 12 values, those *)
(* of the row labelled TOTAIS when there is one and twelve zeros when      *)
(* there is none.                                                          *)
(***************************************************************************)
MonthSeq(r) ==
    << Coerce(r, "jan").val, Coerce(r, "fev").val, Coerce(r, "mar").val,
       Coerce(r, "abr").val, Coerce(r, "mai").val, Coerce(r, "jun").val,
       Coerce(r, "jul").val, Coerce(r, "ago").val, Coerce(r, "set").val,
       Coerce(r, "out").val, Coerce(r, "nov").val, Coerce(r, "dez").val >>

Label(r, campo) == strip(Get(r, campo, <<>>))
IsEntity(r) == Label(r, "fraccao") # <<>> /\ upper(Label(r, "fraccao")) # S_TOTAIS

EntityMapOk(map, rows) ==
    /\ \A k \in DOMAIN map : k # <<>> /\ upper(strip(k)) # S_TOTAIS
    /\ \A i \in 1..Len(rows) :
          IsEntity(rows[i]) =>
             /\ Label(rows[i], "fraccao") \in DOMAIN map
             /\ \E j \in i..Len(rows) :
                   /\ Label(rows[j], "fraccao") = Label(rows[i], "fraccao")
                   /\ map[Label(rows[i], "fraccao")] = MonthSeq(rows[j])

TotaisRows(rows) ==
    { i \in 1..Len(rows) : upper(Label(rows[i], "despesas")) = S_TOTAIS }

C9_MonthlySeries ==
    response.view = "dashboard" =>
        /\ EntityMapOk(response.rec_n_fracoes, ler_dbf("ReceitasN.dbf"))
        /\ EntityMapOk(response.rec_e_fracoes, ler_dbf("ReceitasE.dbf"))
        /\ Len(response.despesas_mensais) = 12
        /\ LET rows == ler_dbf("Despesas.dbf")
           IN  response.despesas_mensais =
                  IF TotaisRows(rows) = {} THEN [i \in 1..12 |-> 0]
                  ELSE MonthSeq(rows[Min(TotaisRows(rows))])

=============================================================================
